---- MODULE Spec2Model ----
(***************************************************************************)
(* Model of tcv_screenshots: the model collector (__init__.py), the        *)
(* example runner / exporter process_examples, the screenshot renderer     *)
(* render_models_to_screenshots and the orchestrator run (render.py).      *)
(*                                                                         *)
(* Python values are tagged records so that the isinstance / len / truth   *)
(* tests of the code can be evaluated on them.                             *)
(***************************************************************************)
EXTENDS Integers, Sequences, FiniteSets, TLC

(***************************************************************************)
(* Bounds of the model.                                                    *)
(***************************************************************************)
\* largest number of save_model calls the scripts of one run make
MaxSaves == 2
\* largest length of the collector when its three calls are made freely
MaxCollected == 2
\* largest number of sys.path changes the scripts of one run make
MaxPathOps == 1

(***************************************************************************)
(* Python values.                                                          *)
(***************************************************************************)
None == [type |-> "None"]
Str(s) == [type |-> "str", s |-> s]
Model(id) == [type |-> "model", id |-> id]
Dict(m) == [type |-> "dict", map |-> m]
Tuple(items) == [type |-> "tuple", items |-> items]
List(items) == [type |-> "list", items |-> items]

EmptyMap == [key \in {} |-> 0]

\* bool(v): None, empty containers and the empty string are falsy
Truthy(v) ==
    CASE v.type = "None" -> FALSE
      [] v.type = "dict" -> DOMAIN v.map # {}
      [] v.type \in {"tuple", "list"} -> v.items # <<>>
      [] v.type = "str" -> v.s # ""
      [] OTHER -> TRUE

\* Python's `a or b`
Or(a, b) == IF Truthy(a) THEN a ELSE b

(***************************************************************************)
(* Inputs: what the example scripts build and pass around.                 *)
(***************************************************************************)
BoxConfig == Dict([cadWidth |-> 500, height |-> 375, render_edges |-> FALSE])
\* the (model, name, config) arguments of the save_model calls
SaveArgs ==
    {[model |-> Model("mA"), name |-> Str("step1"), config |-> None],
     [model |-> Model("mB"), name |-> Str("step2"),
      config |-> Dict([cadWidth |-> 300])],
     [model |-> Model("mB"), name |-> Str("step1"), config |-> BoxConfig]}
Stems == <<"s1", "s2">>
\* sys.path when run() is called, and the directory of the example files
InitialSysPath == <<"site-packages">>
ExamplesDir == "examples"

(***************************************************************************)
(* The model collector, tcv_screenshots/__init__.py.                       *)
(***************************************************************************)
\* _saved_models.append((model, name, config or {}))
save_model(sm, model, name, config) ==
    Append(sm, Tuple(<<model, name, Or(config, Dict(EmptyMap))>>))

\* variant: the copy is returned but the live list is not reset
get_saved_models_keep(sm) == [models |-> sm, saved |-> sm]

\* models = _saved_models.copy(); _saved_models = []; return models
get_saved_models(sm) == [models |-> sm, saved |-> <<>>]

\* variant: the live list is left as it is
clear_saved_models_keep(sm) == sm

\* _saved_models = []
clear_saved_models(sm) == <<>>

(***************************************************************************)
(* Pure parts of process_examples.                                         *)
(***************************************************************************)
\* the shared defaults, as render.py sets them at import
InitialDefaultConfig ==
    [cadWidth |-> 1200, height |-> 800, treeWidth |-> 0, theme |-> "light",
     glass |-> TRUE, tools |-> FALSE, ambientIntensity |-> "1.0",
     directIntensity |-> "1.1", metalness |-> "0.3", roughness |-> "0.65",
     edgeColor |-> 7368816, ortho |-> TRUE, control |-> "trackball",
     up |-> "Z"]

\* isinstance(item, tuple) and len(item) == 3
IsTriple(item) == item.type = "tuple" /\ Len(item.items) = 3

\* variant: the loop ends at the first item that is not a triple
RECURSIVE AppendTriples_stop(_, _)
AppendTriples_stop(acc, items) ==
    IF items = <<>> \/ ~IsTriple(Head(items)) THEN acc
    ELSE AppendTriples_stop(Append(acc, Head(items)), Tail(items))

\* for item in result: append the triples, print SKIP for anything else
RECURSIVE AppendTriples(_, _)
AppendTriples(acc, items) ==
    IF items = <<>> THEN acc
    ELSE AppendTriples(IF IsTriple(Head(items)) THEN Append(acc, Head(items))
                                                ELSE acc,
                       Tail(items))

\* the if / elif chain that turns main()'s result into models_to_process;
\* none is TRUE on the branch that prints "main() returned None" and continues
Normalize(res, model_name) ==
    IF res.type = "list"
    THEN [none |-> FALSE, models |-> AppendTriples(<<>>, res.items)]
    ELSE IF res.type = "tuple" /\ Len(res.items) = 2
    THEN [none |-> FALSE,
          models |-> <<Tuple(<<res.items[1], Str(model_name), res.items[2]>>)>>]
    ELSE IF res # None
    THEN [none |-> FALSE,
          models |-> <<Tuple(<<res, Str(model_name), Dict(EmptyMap)>>)>>]
    ELSE [none |-> TRUE, models |-> <<>>]

\* variant: DEFAULT_CONFIG.update(example_config or {}) and config is that dict
MergeConfig_inplace(defaults, example_config) ==
    LET o == Or(example_config, Dict(EmptyMap)) IN
    IF o.type # "dict"
    THEN [raised |-> TRUE, config |-> EmptyMap, defaults |-> defaults]
    ELSE LET merged == [key \in DOMAIN defaults \cup DOMAIN o.map |->
                           IF key \in DOMAIN o.map THEN o.map[key]
                                                   ELSE defaults[key]]
         IN [raised |-> FALSE, config |-> merged, defaults |-> merged]

\* config = {**DEFAULT_CONFIG, **(example_config or {})}: a new dict is built,
\* the operands are only read; ** of a non-mapping raises TypeError
MergeConfig(defaults, example_config) ==
    LET o == Or(example_config, Dict(EmptyMap)) IN
    IF o.type # "dict"
    THEN [raised |-> TRUE, config |-> EmptyMap, defaults |-> defaults]
    ELSE [raised |-> FALSE,
          config |-> [key \in DOMAIN defaults \cup DOMAIN o.map |->
                         IF key \in DOMAIN o.map THEN o.map[key]
                                                 ELSE defaults[key]],
          defaults |-> defaults]

\* json.loads(export_three_cad_viewer_js(None, cad_object)) when the exporter
\* accepts the object: the geometry tree of that object
GeometryTree(cad_object) == [tree_of |-> cad_object]

\* f"{output_name}.json" / f"{model_name}.png" under the output directory
FileName(output_name, ext) == <<output_name.s, ext>>

\* keys of a viewer configuration whose values are sequences
SequenceKeys == {"position"}

\* json.dumps writes a tuple and a list alike as an array, and json.loads
\* reads an array as a list
JsonArray(v) == List(v.items)

\* the configuration as json.dumps encodes it: numbers, strings and booleans
\* as they are, sequences as arrays
JsonConfig(config) ==
    [key \in DOMAIN config |->
        IF key \in SequenceKeys THEN JsonArray(config[key]) ELSE config[key]]

\* json.dumps(combined_data) as written by write_text
JsonText(combined_data) ==
    [json |-> [model |-> combined_data.model,
               config |-> JsonConfig(combined_data.config)]]

\* json.loads of the text of a "<name>.json" file
JsonLoads(text) == text.json

(***************************************************************************)
(* State.                                                                  *)
(***************************************************************************)
VARIABLES
    saved_models,       \* __init__._saved_models
    DEFAULT_CONFIG,     \* render.DEFAULT_CONFIG
    example_files,      \* run(examples): the stems of the selected scripts
    models_dir,         \* run(debug_models_dir): TRUE when one is given
    pause,              \* render_models_to_screenshots(pause)
    pc,                 \* where run / process_examples / the renderer stands
    idx,                \* position of the for loop over example_files
    result,             \* process_examples: result of module.main()
    models_to_process,  \* process_examples: the normalized triples
    mi,                 \* position of the for loop over models_to_process
    processed_models,   \* process_examples: the (name, data) list it returns
    json_files,         \* files under models_dir: file name -> text
    browser,            \* "none", "open" or "closed"
    viewport,           \* render: the page's viewport size
    k,                  \* render: position of the for loop over models
    loaded,             \* render: index of the document the viewer holds
    data_url,           \* render: the data URL the viewer returned
    success_count,      \* render: success_count
    fail_count,         \* render: fail_count
    run_fail_count,     \* run: fail_count returned by the renderer
    png_files,          \* files under screenshots_dir: file name -> bytes
    exit_code,          \* process exit status, -1 while running
    sys_path,           \* sys.path: the module search path
    \* history variables, read by the properties only
    executed,           \* indices of the scripts whose load was started
    outcome,            \* per finished script: how its iteration ended
    doc_owner,          \* per entry of processed_models: index of its script
    script_saves,       \* save_model arguments of the running script
    shape,              \* shape of what the running script's main() returned
    export_failed_at,   \* position in models_to_process where the exporter raised
    saves_made,         \* number of save_model calls of the run
    close_count,        \* number of browser.close() calls
    viewer_init,        \* "pending", "ok" or "failed": the initialization wait
    attempts,           \* render: indices of the documents started
    failed_docs,        \* render: indices of the documents made to fail
    page_count,         \* number of browser.new_page() calls
    render_calls,       \* number of calls of render_models_to_screenshots
    doc_steps,          \* render: steps done so far for the current document
    doc_outcomes,       \* render: per finished document, how it ended
    path_ops,           \* number of sys.path changes the scripts made
    since_reset,        \* collector: triples saved since the last drain/clear
    drained,            \* collector: what the last get_saved_models returned
    expect_drained,     \* collector: since_reset at that call
    last_ops            \* collector: the last two calls

vars == <<saved_models, DEFAULT_CONFIG, example_files, models_dir, pause, pc,
          idx, result, models_to_process, mi, processed_models, json_files,
          browser, viewport, k, loaded, data_url, success_count, fail_count,
          run_fail_count, png_files, exit_code, executed, outcome, doc_owner,
          script_saves, shape, export_failed_at, saves_made, close_count,
          viewer_init, attempts, failed_docs, sys_path, page_count,
          render_calls, doc_steps, doc_outcomes, path_ops,
          since_reset, drained, expect_drained, last_ops>>

inputVars == <<example_files, models_dir>>
collectorHistory == <<since_reset, drained, expect_drained, last_ops>>
processLocals == <<idx, result, models_to_process, mi>>
processHistory == <<executed, outcome, doc_owner, script_saves, shape,
                    export_failed_at, saves_made>>
renderVars == <<pause, browser, viewport, k, loaded, data_url, success_count,
                fail_count, run_fail_count, png_files>>
renderLocals == <<pause, browser, viewport, k, loaded, data_url, success_count,
                  fail_count>>
renderHistory == <<close_count, viewer_init, attempts, failed_docs>>
sessionCounts == <<page_count, render_calls>>
renderTrace == <<sessionCounts, doc_steps, doc_outcomes>>
pathVars == <<sys_path, path_ops>>

Init ==
    /\ saved_models = <<>>
    /\ DEFAULT_CONFIG = InitialDefaultConfig
    /\ example_files \in {SubSeq(Stems, 1, n) : n \in 0..Len(Stems)}
    /\ models_dir \in BOOLEAN
    /\ pause = FALSE
    /\ pc = "start"
    /\ idx = 0
    /\ result = None
    /\ models_to_process = <<>>
    /\ mi = 0
    /\ processed_models = <<>>
    /\ json_files = EmptyMap
    /\ browser = "none"
    /\ viewport = [width |-> 0, height |-> 0]
    /\ k = 0
    /\ loaded = 0
    /\ data_url = None
    /\ success_count = 0
    /\ fail_count = 0
    /\ run_fail_count = 0
    /\ png_files = EmptyMap
    /\ exit_code = -1
    /\ executed = <<>>
    /\ outcome = <<>>
    /\ doc_owner = <<>>
    /\ script_saves = <<>>
    /\ shape = ""
    /\ export_failed_at = 0
    /\ saves_made = 0
    /\ close_count = 0
    /\ viewer_init = "pending"
    /\ attempts = <<>>
    /\ failed_docs = {}
    /\ sys_path = InitialSysPath
    /\ page_count = 0
    /\ render_calls = 0
    /\ doc_steps = <<>>
    /\ doc_outcomes = <<>>
    /\ path_ops = 0
    /\ since_reset = <<>>
    /\ drained = <<>>
    /\ expect_drained = <<>>
    /\ last_ops = <<>>

(***************************************************************************)
(* run and process_examples: the loop over the example files.              *)
(***************************************************************************)
\* what process_examples neither reads nor writes
outside == <<inputVars, renderVars, exit_code, renderHistory, renderTrace,
             collectorHistory>>

\* sys.path.insert(0, x) and sys.path.pop(0)
path_insert(path, x) == <<x>> \o path
path_pop(path) == Tail(path)

\* variant: a script that raises ends the loop over the example files
NextScript_break(how) ==
    /\ idx' = IF how = "LoadError" THEN Len(example_files) + 1 ELSE idx + 1
    /\ pc' = "loop"
    /\ mi' = 0
    /\ outcome' = Append(outcome, how)
    /\ script_saves' = <<>>

\* leave the current script: the next iteration of `for example_path`
NextScript(how) ==
    /\ idx' = idx + 1
    /\ pc' = "loop"
    /\ mi' = 0
    /\ outcome' = Append(outcome, how)
    /\ script_saves' = <<>>

\* run calls process_examples, which lists the files and returns [] when
\* there are none
RunStart ==
    /\ pc = "start"
    /\ IF example_files = <<>> THEN pc' = "processed" /\ idx' = idx
                               ELSE pc' = "loop" /\ idx' = 1
    /\ processed_models' = <<>>
    /\ UNCHANGED <<saved_models, DEFAULT_CONFIG, result, models_to_process,
                   mi, json_files, processHistory, pathVars, outside>>

\* top of the loop body: the collector is cleared, then the module is loaded
LoopHead ==
    /\ pc = "loop"
    /\ idx <= Len(example_files)
    /\ saved_models' = clear_saved_models(saved_models)
    /\ sys_path' = path_insert(sys_path, ExamplesDir)
    /\ pc' = "load"
    /\ result' = None
    /\ models_to_process' = <<>>
    /\ shape' = ""
    /\ export_failed_at' = 0
    /\ executed' = Append(executed, idx)
    /\ UNCHANGED <<DEFAULT_CONFIG, idx, mi, processed_models, json_files,
                   outcome, doc_owner, script_saves, saves_made, path_ops, outside>>

\* the loop is exhausted: return processed_models
LoopEnd ==
    /\ pc = "loop"
    /\ idx > Len(example_files)
    /\ pc' = "processed"
    /\ result' = None
    /\ models_to_process' = <<>>
    /\ shape' = ""
    /\ export_failed_at' = 0
    /\ UNCHANGED <<saved_models, DEFAULT_CONFIG, idx, mi, processed_models,
                   json_files, executed, outcome, doc_owner, script_saves,
                   saves_made, pathVars, outside>>

\* the running script, at top level or inside main(), calls save_model
ScriptSave ==
    /\ pc \in {"load", "main"}
    /\ saves_made < MaxSaves
    /\ \E a \in SaveArgs :
          /\ saved_models' = save_model(saved_models, a.model, a.name, a.config)
          /\ script_saves' =
               Append(script_saves, [model |-> a.model, name |-> a.name,
                                     config |-> a.config, at |-> pc])
    /\ saves_made' = saves_made + 1
    /\ UNCHANGED <<DEFAULT_CONFIG, pc, processLocals, processed_models,
                   json_files, executed, outcome, doc_owner, shape,
                   export_failed_at, pathVars, outside>>

\* exec_module raises, or succeeds and the pop in the finally clause raises on
\* an empty sys.path: the except clause prints FAILURE
LoadRaise ==
    /\ pc = "load"
    /\ sys_path' = IF sys_path = <<>> THEN sys_path ELSE path_pop(sys_path)
    /\ NextScript("LoadError")
    /\ UNCHANGED <<saved_models, DEFAULT_CONFIG, result, models_to_process,
                   processed_models, json_files, executed, doc_owner, shape,
                   export_failed_at, saves_made, path_ops, outside>>

\* the module has no main(): SKIP, continue
LoadNoMain ==
    /\ pc = "load"
    /\ sys_path # <<>>
    /\ sys_path' = path_pop(sys_path)
    /\ NextScript("Skip")
    /\ UNCHANGED <<saved_models, DEFAULT_CONFIG, result, models_to_process,
                   processed_models, json_files, executed, doc_owner, shape,
                   export_failed_at, saves_made, path_ops, outside>>

\* variant: the collector is cleared once more before main() is called
LoadOk_clear ==
    /\ pc = "load"
    /\ sys_path # <<>>
    /\ sys_path' = path_pop(sys_path)
    /\ pc' = "main"
    /\ saved_models' = clear_saved_models(saved_models)
    /\ UNCHANGED <<DEFAULT_CONFIG, processLocals,
                   processed_models, json_files, processHistory, path_ops, outside>>

\* the module is loaded and has a main(): call it
LoadOk ==
    /\ pc = "load"
    /\ sys_path # <<>>
    /\ sys_path' = path_pop(sys_path)
    /\ pc' = "main"
    /\ UNCHANGED <<saved_models, DEFAULT_CONFIG, processLocals,
                   processed_models, json_files, processHistory, path_ops, outside>>

\* main() raises
MainRaise ==
    /\ pc = "main"
    /\ NextScript("LoadError")
    /\ UNCHANGED <<saved_models, DEFAULT_CONFIG, result, models_to_process,
                   processed_models, json_files, executed, doc_owner, shape,
                   export_failed_at, saves_made, pathVars, outside>>

\* which of the documented return shapes a value has: None, a model handle,
\* a (model, overrides) pair, a list (of triples), or none of these
ShapeOf(res) ==
    CASE res = None -> "None"
      [] res.type = "model" -> "model"
      [] res.type = "list" -> "list"
      [] /\ res.type = "tuple"
         /\ Len(res.items) = 2
         /\ res.items[1].type = "model"
         /\ res.items[2].type \in {"dict", "None"} -> "pair"
      [] OTHER -> "other"

\* result = module.main() has returned res
Returned(res) ==
    /\ result' = res
    /\ shape' = ShapeOf(res)
    /\ pc' = "returned"

\* values a script builds itself and returns from main()
Malformed == {Tuple(<<Model("mA"), Str("step1")>>),
              List(<<Model("mB"), Str("step2"), Dict(EmptyMap)>>)}
Literals ==
    {None, Model("mA"),
     Tuple(<<Model("mA"), None>>),
     Tuple(<<Model("mB"), Dict([cadWidth |-> 300])>>),
     Tuple(<<Model("mA"), Dict([position |-> Tuple(<<10, 20, 30>>)])>>),
     Tuple(<<Model("mA"), Str("step1"), BoxConfig>>)}

\* main() returns a value it built itself
MainReturn ==
    /\ pc = "main"
    /\ \E res \in Literals : Returned(res)
    /\ UNCHANGED <<saved_models, DEFAULT_CONFIG, idx, models_to_process, mi,
                   processed_models, json_files, executed, outcome, doc_owner,
                   script_saves, export_failed_at, saves_made, pathVars, outside>>

\* the list l with item x inserted before position at
InsertAt(l, at, x) == SubSeq(l, 1, at - 1) \o <<x>> \o SubSeq(l, at, Len(l))

\* main() returns get_saved_models(), possibly after putting one malformed
\* item into that list, or returns tuple(get_saved_models())
MainReturnDrain ==
    /\ pc = "main"
    /\ LET got == get_saved_models(saved_models) IN
       /\ saved_models' = got.saved
       /\ \E res \in {List(got.models), Tuple(got.models)}
                \cup {List(InsertAt(got.models, at, x)) :
                         at \in 1..(Len(got.models) + 1), x \in Malformed} :
             Returned(res)
    /\ UNCHANGED <<DEFAULT_CONFIG, idx, models_to_process, mi,
                   processed_models, json_files, executed, outcome, doc_owner,
                   script_saves, export_failed_at, saves_made, pathVars, outside>>

\* lines 116-138: result is normalized into models_to_process; a None result
\* and an empty models_to_process skip the script
NormalizeResult ==
    /\ pc = "returned"
    /\ LET n == Normalize(result, example_files[idx]) IN
       /\ models_to_process' = n.models
       /\ IF n.none \/ n.models = <<>>
          THEN NextScript("Skip")
          ELSE /\ pc' = "export"
               /\ mi' = 1
               /\ UNCHANGED <<idx, outcome, script_saves>>
    /\ UNCHANGED <<saved_models, DEFAULT_CONFIG, result, processed_models,
                   json_files, executed, doc_owner, shape, export_failed_at,
                   saves_made, pathVars, outside>>

(***************************************************************************)
(* process_examples: the loop over models_to_process.                      *)
(***************************************************************************)
\* after a model was appended: the next model, or the next script
NextModel ==
    IF mi < Len(models_to_process)
    THEN /\ mi' = mi + 1
         /\ UNCHANGED <<pc, idx, outcome, script_saves>>
    ELSE NextScript("Ok")

\* variant: an existing "<name>.json" is not written again
ExportModel_keepfirst ==
    /\ pc = "export"
    /\ LET item == models_to_process[mi].items
           merged == MergeConfig(DEFAULT_CONFIG, item[3])
           combined_data == [model |-> GeometryTree(item[1]),
                             config |-> merged.config]
       IN /\ ~merged.raised
          /\ DEFAULT_CONFIG' = merged.defaults
          /\ json_files' =
               IF models_dir /\ FileName(item[2], "json") \notin DOMAIN json_files
               THEN [f \in DOMAIN json_files \cup {FileName(item[2], "json")} |->
                        IF f = FileName(item[2], "json")
                        THEN JsonText(combined_data) ELSE json_files[f]]
               ELSE json_files
          /\ processed_models' = Append(processed_models, <<item[2], combined_data>>)
          /\ doc_owner' = Append(doc_owner, idx)
    /\ NextModel
    /\ UNCHANGED <<saved_models, result, models_to_process, executed, shape,
                   export_failed_at, saves_made, pathVars, outside>>

\* one pass of the loop body that reaches processed_models.append
ExportModel ==
    /\ pc = "export"
    /\ LET item == models_to_process[mi].items
           merged == MergeConfig(DEFAULT_CONFIG, item[3])
           combined_data == [model |-> GeometryTree(item[1]),
                             config |-> merged.config]
       IN /\ ~merged.raised
          /\ DEFAULT_CONFIG' = merged.defaults
          /\ json_files' =
               IF models_dir
               THEN [f \in DOMAIN json_files \cup {FileName(item[2], "json")} |->
                        IF f = FileName(item[2], "json")
                        THEN JsonText(combined_data) ELSE json_files[f]]
               ELSE json_files
          /\ processed_models' = Append(processed_models, <<item[2], combined_data>>)
          /\ doc_owner' = Append(doc_owner, idx)
    /\ NextModel
    /\ UNCHANGED <<saved_models, result, models_to_process, executed, shape,
                   export_failed_at, saves_made, pathVars, outside>>

\* the merge raises TypeError: the overrides are neither falsy nor a mapping
ExportMergeRaise ==
    /\ pc = "export"
    /\ LET merged == MergeConfig(DEFAULT_CONFIG, models_to_process[mi].items[3])
       IN /\ merged.raised
          /\ DEFAULT_CONFIG' = merged.defaults
    /\ NextScript("ExportError")
    /\ UNCHANGED <<saved_models, result, models_to_process, processed_models,
                   json_files, executed, doc_owner, shape, export_failed_at,
                   saves_made, pathVars, outside>>

\* variant: the exception is caught per model and the loop goes on
ExportRaise_continue ==
    /\ pc = "export"
    /\ LET merged == MergeConfig(DEFAULT_CONFIG, models_to_process[mi].items[3])
       IN /\ ~merged.raised
          /\ DEFAULT_CONFIG' = merged.defaults
    /\ export_failed_at' = mi
    /\ NextModel
    /\ UNCHANGED <<saved_models, result, models_to_process, processed_models,
                   json_files, executed, doc_owner, shape, saves_made,
                   pathVars, outside>>

\* export_three_cad_viewer_js (or json.loads of its output) raises
ExportRaise ==
    /\ pc = "export"
    /\ LET merged == MergeConfig(DEFAULT_CONFIG, models_to_process[mi].items[3])
       IN /\ ~merged.raised
          /\ DEFAULT_CONFIG' = merged.defaults
    /\ export_failed_at' = mi
    /\ NextScript("ExportError")
    /\ UNCHANGED <<saved_models, result, models_to_process, processed_models,
                   json_files, executed, doc_owner, shape, saves_made,
                   pathVars, outside>>

\* debug mode: writing "<name>.json" raises
PersistRaise ==
    /\ pc = "export"
    /\ models_dir
    /\ LET merged == MergeConfig(DEFAULT_CONFIG, models_to_process[mi].items[3])
       IN /\ ~merged.raised
          /\ DEFAULT_CONFIG' = merged.defaults
    /\ NextScript("PersistError")
    /\ UNCHANGED <<saved_models, result, models_to_process, processed_models,
                   json_files, executed, doc_owner, shape, export_failed_at,
                   saves_made, pathVars, outside>>

\* entries a script's top-level code puts on sys.path
ScriptDirs == {"lib"}

\* the script's top-level code changes sys.path while it is being loaded:
\* sys.path.insert(0, d), sys.path.append(d) or sys.path.pop(0)
ScriptPathOp ==
    /\ pc = "load"
    /\ path_ops < MaxPathOps
    /\ path_ops' = path_ops + 1
    /\ \/ \E d \in ScriptDirs : sys_path' = path_insert(sys_path, d)
       \/ \E d \in ScriptDirs : sys_path' = Append(sys_path, d)
       \/ sys_path # <<>> /\ sys_path' = path_pop(sys_path)
    /\ UNCHANGED <<saved_models, DEFAULT_CONFIG, pc, processLocals,
                   processed_models, json_files, processHistory, outside>>

ProcessNext ==
    \/ RunStart \/ LoopHead \/ LoopEnd \/ ScriptSave
    \/ LoadRaise \/ LoadNoMain \/ LoadOk \/ MainRaise
    \/ MainReturn \/ MainReturnDrain \/ NormalizeResult
    \/ ExportModel \/ ExportMergeRaise \/ ExportRaise \/ PersistRaise

(***************************************************************************)
(* run after process_examples, and render_models_to_screenshots.           *)
(***************************************************************************)
processVars == <<saved_models, DEFAULT_CONFIG, inputVars, processLocals,
                 processed_models, json_files, processHistory, pathVars,
                 collectorHistory>>

\* run: `if not models: return`, else the renderer is called
RunCheckModels ==
    /\ pc = "processed"
    /\ IF processed_models = <<>>
       THEN pc' = "exited" /\ exit_code' = 0
       ELSE pc' = "render_start" /\ exit_code' = exit_code
    /\ UNCHANGED <<processVars, renderVars, renderHistory, renderTrace>>

\* the data URL of a PNG: "data:image/png;base64," followed by the payload
B64Encode(bytes) == [b64 |-> bytes]
B64Decode(text) == text.b64
DataUrl(bytes) == [type |-> "dataurl", head |-> "data:image/png;base64",
                   payload |-> B64Encode(bytes)]
\* what the viewer draws for the document it holds
ImageOf(doc_index) == [image_of |-> doc_index]

\* config.get(key, DEFAULT_CONFIG[key])
ConfigGet(config, key, default) ==
    IF key \in DOMAIN config THEN config[key] ELSE default

\* lines 188-234: nothing to do for an empty list; otherwise the browser is
\* launched, a page opened and the viewer loaded
RenderStart ==
    /\ pc = "render_start"
    /\ \E p \in BOOLEAN : pause' = p
    /\ render_calls' = render_calls + 1
    /\ IF processed_models = <<>>
       THEN /\ pc' = "render_returned"
            /\ run_fail_count' = 0
            /\ UNCHANGED <<browser, success_count, fail_count, page_count>>
       ELSE /\ pc' = "init_wait"
            /\ success_count' = 0
            /\ fail_count' = 0
            /\ browser' = "open"
            /\ page_count' = page_count + 1
            /\ UNCHANGED run_fail_count
    /\ UNCHANGED <<processVars, viewport, k, loaded, data_url, png_files,
                   exit_code, renderHistory, doc_steps, doc_outcomes>>

\* variant: the loop steps over the document that follows
NextDocument_skip ==
    /\ doc_steps' = <<>>
    /\ data_url' = None
    /\ IF k + 2 <= Len(processed_models)
       THEN k' = k + 2 /\ pc' = "doc_resize"
       ELSE IF k < Len(processed_models)
       THEN k' = k + 1 /\ pc' = "doc_resize"
       ELSE k' = k /\ pc' = "close"

\* the for loop moves on: the next document, or browser.close(); data_url
\* is assigned in every iteration before it is read, what an iteration
\* leaves in it is dropped here
NextDocument ==
    /\ doc_steps' = <<>>
    /\ data_url' = None
    /\ IF k < Len(processed_models)
       THEN k' = k + 1 /\ pc' = "doc_resize"
       ELSE k' = k /\ pc' = "close"

\* variant: the first failing document ends the loop
DocumentFailed_abort ==
    /\ fail_count' = fail_count + 1
    /\ doc_steps' = <<>>
    /\ data_url' = None
    /\ k' = k
    /\ pc' = "close"

\* the except clause of the per-document try
DocumentFailed ==
    /\ fail_count' = fail_count + 1
    /\ NextDocument

\* variant: a document that failed is tried a second time
Raises_retry ==
    /\ failed_docs' = failed_docs \cup {k}
    /\ doc_outcomes' = Append(doc_outcomes, [doc |-> k, outcome |-> "Failed"])
    /\ IF Cardinality({i \in 1..Len(attempts) : attempts[i] = k}) < 2
       THEN /\ fail_count' = fail_count + 1
            /\ doc_steps' = <<>>
            /\ data_url' = None
            /\ k' = k
            /\ pc' = "doc_resize"
       ELSE DocumentFailed

\* a step of the current document raises
Raises ==
    /\ failed_docs' = failed_docs \cup {k}
    /\ doc_outcomes' = Append(doc_outcomes, [doc |-> k, outcome |-> "Failed"])
    /\ DocumentFailed

\* a step of the current document returns: the document goes on
StepDone(steps) ==
    /\ doc_steps' = doc_steps \o steps
    /\ UNCHANGED <<k, fail_count, failed_docs, doc_outcomes, data_url>>

\* wait_for_function("typeof window.loadModel === 'function'") returns
RenderInitOk ==
    /\ pc = "init_wait"
    /\ viewer_init' = "ok"
    /\ NextDocument
    /\ UNCHANGED <<processVars, pause, browser, viewport, loaded, success_count, fail_count, run_fail_count, png_files,
                   exit_code, close_count, attempts, failed_docs,
                   sessionCounts, doc_outcomes>>

\* variant: the timeout is only printed and the documents are rendered
RenderInitFail_ignore ==
    /\ pc = "init_wait"
    /\ viewer_init' = "failed"
    /\ NextDocument
    /\ UNCHANGED <<processVars, pause, browser, viewport, loaded, success_count, fail_count, run_fail_count, png_files,
                   exit_code, close_count, attempts, failed_docs,
                   sessionCounts, doc_outcomes>>

\* the wait times out: the browser is closed and 1 returned
RenderInitFail ==
    /\ pc = "init_wait"
    /\ viewer_init' = "failed"
    /\ browser' = "closed"
    /\ close_count' = close_count + 1
    /\ run_fail_count' = 1
    /\ pc' = "render_returned"
    /\ UNCHANGED <<processVars, pause, viewport, k, loaded, data_url,
                   success_count, fail_count, png_files, exit_code,
                   attempts, failed_docs, renderTrace>>

\* page.set_viewport_size with the document's cadWidth and height
RenderResize ==
    /\ pc = "doc_resize"
    /\ attempts' = Append(attempts, k)
    /\ \/ /\ LET config == processed_models[k][2].config IN
             viewport' =
               [width |-> ConfigGet(config, "cadWidth",
                                    DEFAULT_CONFIG["cadWidth"]),
                height |-> ConfigGet(config, "height",
                                     DEFAULT_CONFIG["height"])]
          /\ pc' = "doc_load"
          /\ StepDone(<<"resize">>)
       \/ /\ Raises
          /\ UNCHANGED viewport
    /\ UNCHANGED <<processVars, pause, browser, loaded, success_count, run_fail_count, png_files, exit_code,
                   close_count, viewer_init,
                   sessionCounts>>

\* page.evaluate: viewer.clear() and loadModel(json_data)
RenderLoad ==
    /\ pc = "doc_load"
    /\ \/ /\ loaded' = k
          /\ pc' = "doc_wait"
          /\ StepDone(<<"clear", "load">>)
       \/ /\ loaded' \in {loaded, 0}
          /\ Raises
    /\ UNCHANGED <<processVars, pause, browser, viewport, success_count, run_fail_count, png_files, exit_code,
                   close_count, viewer_init, attempts,
                   sessionCounts>>

\* variant: a readiness wait that times out is passed over
RenderWait_ignore ==
    /\ pc = "doc_wait"
    /\ pc' = "doc_settle"
    /\ \/ StepDone(<<"wait">>)
       \/ StepDone(<<>>)
    /\ UNCHANGED <<processVars, pause, browser, viewport, loaded, success_count, run_fail_count, png_files, exit_code,
                   close_count, viewer_init, attempts,
                   sessionCounts>>

\* page.wait_for_function("window.isReady()", timeout=30000)
RenderWait ==
    /\ pc = "doc_wait"
    /\ \/ /\ pc' = "doc_settle"
          /\ StepDone(<<"wait">>)
       \/ Raises
    /\ UNCHANGED <<processVars, pause, browser, viewport, loaded, success_count, run_fail_count, png_files, exit_code,
                   close_count, viewer_init, attempts,
                   sessionCounts>>

\* asyncio.sleep(0.5), then `if pause`
RenderSettle ==
    /\ pc = "doc_settle"
    /\ pc' = IF pause THEN "doc_pause" ELSE "doc_capture"
    /\ doc_steps' = Append(doc_steps, "settle")
    /\ UNCHANGED <<processVars, renderLocals, run_fail_count, png_files,
                   exit_code, renderHistory, sessionCounts, doc_outcomes>>

\* input(...) and the camera report
RenderPause ==
    /\ pc = "doc_pause"
    /\ \/ /\ pc' = "doc_capture"
          /\ StepDone(<<"pause">>)
       \/ Raises
    /\ UNCHANGED <<processVars, pause, browser, viewport, loaded, success_count, run_fail_count, png_files, exit_code,
                   close_count, viewer_init, attempts,
                   sessionCounts>>

\* page.evaluate of getImage: a data URL, or nothing, or an exception;
\* `if not data_url: raise RuntimeError`
RenderCapture ==
    /\ pc = "doc_capture"
    /\ \/ \E url \in {None, Str(""), DataUrl(ImageOf(loaded))} :
             IF Truthy(url)
             THEN /\ data_url' = url
                  /\ pc' = "doc_write"
                  /\ doc_steps' = Append(doc_steps, "capture")
                  /\ UNCHANGED <<k, fail_count, failed_docs, doc_outcomes>>
             ELSE Raises
       \/ Raises
    /\ UNCHANGED <<processVars, pause, browser, viewport, loaded,
                   success_count, run_fail_count, png_files, exit_code,
                   close_count, viewer_init, attempts,
                   sessionCounts>>

\* variant: an existing "<name>.png" is kept, not overwritten
RenderWrite_keepfirst ==
    /\ pc = "doc_write"
    /\ \/ /\ LET output_path == FileName(processed_models[k][1], "png")
                 image_bytes == B64Decode(data_url.payload)
             IN png_files' =
                  [f \in DOMAIN png_files \cup {output_path} |->
                      IF f = output_path /\ f \notin DOMAIN png_files
                      THEN image_bytes ELSE png_files[f]]
          /\ success_count' = success_count + 1
          /\ doc_outcomes' =
               Append(doc_outcomes, [doc |-> k, outcome |-> "Captured"])
          /\ NextDocument
          /\ UNCHANGED <<fail_count, failed_docs>>
       \/ /\ Raises
          /\ UNCHANGED <<png_files, success_count>>
    /\ UNCHANGED <<processVars, pause, browser, viewport, loaded, run_fail_count, exit_code, close_count, viewer_init,
                   attempts, sessionCounts>>

\* the data URL is split and decoded and the bytes are written
RenderWrite ==
    /\ pc = "doc_write"
    /\ \/ /\ LET output_path == FileName(processed_models[k][1], "png")
                 image_bytes == B64Decode(data_url.payload)
             IN png_files' =
                  [f \in DOMAIN png_files \cup {output_path} |->
                      IF f = output_path THEN image_bytes ELSE png_files[f]]
          /\ success_count' = success_count + 1
          /\ doc_outcomes' =
               Append(doc_outcomes, [doc |-> k, outcome |-> "Captured"])
          /\ NextDocument
          /\ UNCHANGED <<fail_count, failed_docs>>
       \/ /\ Raises
          /\ UNCHANGED <<png_files, success_count>>
    /\ UNCHANGED <<processVars, pause, browser, viewport, loaded, run_fail_count, exit_code, close_count, viewer_init,
                   attempts, sessionCounts>>

\* variant: the function returns without browser.close()
RenderClose_skip ==
    /\ pc = "close"
    /\ run_fail_count' = fail_count
    /\ pc' = "render_returned"
    /\ UNCHANGED <<processVars, pause, browser, viewport, k, loaded, data_url,
                   success_count, fail_count, png_files, exit_code,
                   renderHistory, renderTrace>>

\* after the loop: browser.close() and return fail_count; the page, with its
\* viewport and the model it holds, goes with the browser, and data_url with
\* the function's frame
RenderClose ==
    /\ pc = "close"
    /\ browser' = "closed"
    /\ close_count' = close_count + 1
    /\ viewport' = [width |-> 0, height |-> 0]
    /\ loaded' = 0
    /\ data_url' = None
    /\ run_fail_count' = fail_count
    /\ pc' = "render_returned"
    /\ UNCHANGED <<processVars, pause, k, success_count, fail_count,
                   png_files, exit_code, viewer_init, attempts, failed_docs,
                   renderTrace>>

\* variant: after failures the renderer is called a second time
RunExit_retry ==
    /\ pc = "render_returned"
    /\ IF run_fail_count > 0 /\ render_calls < 2
       THEN pc' = "render_start" /\ exit_code' = exit_code
       ELSE /\ exit_code' = IF run_fail_count > 0 THEN 1 ELSE 0
            /\ pc' = "exited"
    /\ UNCHANGED <<processVars, renderVars, renderHistory, renderTrace>>

\* run: `if fail_count > 0: sys.exit(1)`, else run returns
RunExit ==
    /\ pc = "render_returned"
    /\ exit_code' = IF run_fail_count > 0 THEN 1 ELSE 0
    /\ pc' = "exited"
    /\ UNCHANGED <<processVars, renderVars, renderHistory, renderTrace>>

RenderNext ==
    \/ RunCheckModels \/ RenderStart \/ RenderInitOk \/ RenderInitFail
    \/ RenderResize \/ RenderLoad \/ RenderWait \/ RenderSettle
    \/ RenderPause \/ RenderCapture \/ RenderWrite \/ RenderClose
    \/ RunExit

Next == ProcessNext \/ RenderNext

Spec == Init /\ [][Next]_vars

(***************************************************************************)
(* process_examples over scripts whose top-level code changes sys.path and *)
(* whose main() returns a value it built itself.                           *)
(***************************************************************************)
PathNext ==
    \/ RunStart \/ LoopHead \/ LoopEnd \/ ScriptPathOp
    \/ LoadRaise \/ LoadNoMain \/ LoadOk \/ MainRaise
    \/ MainReturn \/ NormalizeResult
    \/ ExportModel \/ ExportRaise \/ PersistRaise

SpecPath == Init /\ [][PathNext]_vars

(***************************************************************************)
(* The collector on its own: any sequence of its three calls.              *)
(***************************************************************************)
\* the last two calls, after one more
Called(op) ==
    last_ops' = IF Len(last_ops) < 2 THEN Append(last_ops, op)
                                     ELSE <<last_ops[2], op>>

notCollector == <<DEFAULT_CONFIG, inputVars, pc, processLocals,
                  processed_models, json_files, renderVars, exit_code,
                  processHistory, renderHistory, renderTrace, pathVars>>

\* the triple a save_model call with arguments a is expected to record
SavedTriple(a) ==
    Tuple(<<a.model, a.name,
            IF a.config = None THEN Dict(EmptyMap) ELSE a.config>>)

\* save_model(a.model, a.name, a.config)
CollectorSave ==
    /\ Len(saved_models) < MaxCollected
    /\ \E a \in SaveArgs :
          /\ saved_models' = save_model(saved_models, a.model, a.name, a.config)
          /\ since_reset' = Append(since_reset, SavedTriple(a))
    /\ Called("save")
    /\ UNCHANGED <<drained, expect_drained, notCollector>>

\* get_saved_models()
CollectorDrain ==
    /\ LET got == get_saved_models(saved_models) IN
       /\ drained' = got.models
       /\ saved_models' = got.saved
    /\ expect_drained' = since_reset
    /\ since_reset' = <<>>
    /\ Called("drain")
    /\ UNCHANGED notCollector

\* clear_saved_models()
CollectorClear ==
    /\ saved_models' = clear_saved_models(saved_models)
    /\ since_reset' = <<>>
    /\ Called("clear")
    /\ UNCHANGED <<drained, expect_drained, notCollector>>

CollectorNext == CollectorSave \/ CollectorDrain \/ CollectorClear

SpecCollector == Init /\ [][CollectorNext]_vars

(***************************************************************************)
(* Properties.                                                             *)
(***************************************************************************)
\* the script the loop variables belong to
cur == IF pc = "loop" THEN idx - 1 ELSE idx
\* positions of processed_models that script i produced
OwnedBy(i) == {j \in 1..Len(doc_owner) : doc_owner[j] = i}
\* the j-th document of the n the current script has produced
OwnDoc(n, j) == processed_models[Len(processed_models) - n + j]
\* the scripts have all been run
AfterLoop == pc \notin {"start", "loop", "load", "main", "returned", "export"}
Errors == {"LoadError", "ExportError"}

\* C1: whenever a load, export or render failure was counted in a run, the
\* process exits with a non-zero status
C1_FailureMeansNonZeroExit ==
    (pc = "exited"
       /\ \/ \E i \in 1..Len(outcome) : outcome[i] \in Errors
          \/ run_fail_count > 0)
    => exit_code # 0

\* C2: get_saved_models returns exactly the triples saved since the last
\* get_saved_models / clear_saved_models, in call order, and leaves the
\* collector empty; a drain right after a drain returns the empty list
C2_DrainReturnsSavedSinceReset ==
    /\ saved_models = since_reset
    /\ (last_ops # <<>> /\ last_ops[Len(last_ops)] = "drain")
         => drained = expect_drained /\ saved_models = <<>>
    /\ last_ops = <<"drain", "drain">> => drained = <<>>

C2_Witness ==
    /\ last_ops = <<"save", "drain">>
    /\ Len(drained) = 2
    /\ drained[1] # drained[2]

\* C3: the collector is empty when a script starts, and while a script runs
\* it holds that script's own saves only, so a drained list holds no capture
\* of an earlier script
C3_CollectorIsolated ==
    /\ (pc = "load" /\ script_saves = <<>>) => saved_models = <<>>
    /\ pc \in {"load", "main"}
         => saved_models = [i \in 1..Len(script_saves) |->
                               SavedTriple(script_saves[i])]
    /\ (pc = "returned" /\ result.type \in {"list", "tuple"})
         => \A i \in 1..Len(result.items) :
               (result.items[i].type = "tuple" /\ Len(result.items[i].items) = 3)
               => \E j \in 1..Len(script_saves) :
                     result.items[i] = SavedTriple(script_saves[j])

C3_Witness ==
    /\ pc = "returned"
    /\ idx = 2
    /\ outcome = <<"LoadError">>
    /\ saves_made = 2
    /\ Len(script_saves) = 1
    /\ result.type = "list"
    /\ Len(result.items) = 1

C4_WellFormed(x) == x.type = "tuple" /\ Len(x.items) = 3

\* C4: None gives a skip with no model; a model handle gives one model named
\* after the file stem with empty overrides; a (model, overrides) pair gives
\* one model named after the stem with those overrides; a list gives its
\* well-formed triples verbatim and in order, the other items dropped
C4_Normalization ==
    (pc \in {"export", "loop"} /\ shape # "")
    => LET stem == Str(example_files[cur]) IN
       /\ shape = "None"
            => /\ models_to_process = <<>>
               /\ outcome[cur] = "Skip"
               /\ OwnedBy(cur) = {}
       /\ shape = "model"
            => models_to_process = <<Tuple(<<result, stem, Dict(EmptyMap)>>)>>
       /\ shape = "pair"
            => models_to_process =
                 <<Tuple(<<result.items[1], stem, result.items[2]>>)>>
       /\ shape = "list"
            => models_to_process = SelectSeq(result.items, C4_WellFormed)

C4_Witness ==
    /\ pc = "export"
    /\ shape = "list"
    /\ Len(result.items) = 3
    /\ ~C4_WellFormed(result.items[2])
    /\ Len(models_to_process) = 2
    /\ models_to_process[1] # models_to_process[2]

\* C5: a result of another shape is an error of its script: no captured
\* model comes of it, no document, and the script ends as failed
C5_OtherShapeIsError ==
    (pc \in {"export", "loop"} /\ shape = "other")
    => /\ models_to_process = <<>>
       /\ OwnedBy(cur) = {}
       /\ pc = "loop" => outcome[cur] \in Errors

\* C6: the configuration of every document is the overrides where they have
\* a key and the defaults elsewhere, and DEFAULT_CONFIG never changes
C6_MergeOverridesDefaults ==
    /\ DEFAULT_CONFIG = InitialDefaultConfig
    /\ pc \in {"export", "loop"}
         => LET n == Cardinality(OwnedBy(cur)) IN
            /\ n <= Len(models_to_process)
            /\ \A j \in 1..n :
                  LET config == OwnDoc(n, j)[2].config
                      given == models_to_process[j].items[3]
                      overrides == IF given.type = "dict" THEN given.map
                                                          ELSE EmptyMap
                  IN /\ DOMAIN config =
                          DOMAIN InitialDefaultConfig \cup DOMAIN overrides
                     /\ \A key \in DOMAIN overrides :
                           config[key] = overrides[key]
                     /\ \A key \in DOMAIN InitialDefaultConfig \ DOMAIN overrides :
                           config[key] = InitialDefaultConfig[key]

C6_Witness ==
    /\ pc = "loop"
    /\ idx = 3
    /\ shape = "pair"
    /\ Len(processed_models) = 3
    /\ processed_models[3][1] = Str("s2")
    /\ processed_models[3][2].config["cadWidth"] = 300
    /\ processed_models[3][2].config["height"] = 800
    /\ processed_models[2][2].config["cadWidth"] = 500
    /\ "render_edges" \in DOMAIN processed_models[2][2].config

\* C7: every script is run exactly once, in input order, whatever the others
\* did; a skipped script and a script that raised while loading or in main()
\* give no document, and the documents of the others are in the list
C7_EveryScriptRunOnce ==
    /\ executed = [i \in 1..Len(executed) |-> i]
    /\ Len(executed) = (IF pc = "start" THEN 0
                        ELSE IF AfterLoop THEN Len(example_files)
                        ELSE cur)
    /\ Len(doc_owner) = Len(processed_models)
    /\ \A i \in 1..Len(outcome) :
          /\ outcome[i] \in {"Skip", "LoadError"} => OwnedBy(i) = {}
          /\ outcome[i] = "Ok" => OwnedBy(i) # {}

C7_Witness ==
    /\ pc = "processed"
    /\ outcome = <<"LoadError", "Ok">>
    /\ Len(processed_models) = 2

\* name of the k-th document handed to the renderer
DocName(d) == processed_models[d][1]
\* the last document of that name that did not fail
LastCaptured(d) ==
    CHOOSE e \in 1..Len(processed_models) :
       /\ DocName(e) = DocName(d)
       /\ e \notin failed_docs
       /\ \A f \in 1..Len(processed_models) :
             (DocName(f) = DocName(d) /\ f \notin failed_docs) => f <= e

\* C8: once the viewer is initialized every document is attempted, the ones
\* that did not fail are captured, and the failure count is the number of
\* documents that failed
C8_PerDocumentIsolation ==
    /\ viewer_init = "ok" => fail_count = Cardinality(failed_docs)
    /\ (viewer_init = "ok" /\ pc \in {"close", "render_returned", "exited"})
         => /\ attempts = [i \in 1..Len(processed_models) |-> i]
            /\ success_count = Len(processed_models) - Cardinality(failed_docs)
            /\ \A d \in (1..Len(processed_models)) \ failed_docs :
                  /\ FileName(DocName(d), "png") \in DOMAIN png_files
                  /\ png_files[FileName(DocName(d), "png")] =
                       ImageOf(LastCaptured(d))
    /\ (viewer_init = "ok" /\ pc \in {"render_returned", "exited"})
         => run_fail_count = Cardinality(failed_docs)

C8_Witness ==
    /\ pc = "render_returned"
    /\ viewer_init = "ok"
    /\ Len(processed_models) = 3
    /\ failed_docs = {2}
    /\ success_count = 2
    /\ run_fail_count = 1

\* C9: when the viewer does not initialize in time the renderer reports a
\* failure, takes no per-document step, writes no image and closes the
\* browser, and the process exits non-zero
C9_ViewerInitFailureIsFatal ==
    viewer_init = "failed"
    => /\ pc \in {"render_returned", "exited"}
       /\ run_fail_count > 0
       /\ attempts = <<>>
       /\ k = 0 /\ loaded = 0
       /\ png_files = EmptyMap
       /\ browser = "closed"
       /\ pc = "exited" => exit_code # 0

C9_Witness ==
    /\ viewer_init = "failed"
    /\ pc = "exited"
    /\ Len(processed_models) >= 2
    /\ exit_code = 1

\* C10: when the exporter raises on the k-th model of a script, the script's
\* documents are exactly those of its models before k, they stay in the list,
\* and the scripts after it are still run
C10_ExportFailureAbandonsScript ==
    /\ Len(doc_owner) = Len(processed_models)
    /\ export_failed_at > 0
         => LET n == Cardinality(OwnedBy(cur)) IN
            /\ n = export_failed_at - 1
            /\ \A j \in 1..n :
                  /\ OwnDoc(n, j)[1] = models_to_process[j].items[2]
                  /\ OwnDoc(n, j)[2].model =
                       [tree_of |-> models_to_process[j].items[1]]
    /\ AfterLoop => Len(executed) = Len(example_files)

C10_Witness ==
    /\ pc = "main"
    /\ idx = 2
    /\ outcome = <<"ExportError">>
    /\ Len(processed_models) = 1
    /\ doc_owner = <<1>>

\* the last document exported under the name of document d
LastExported(d) ==
    CHOOSE e \in 1..Len(processed_models) :
       /\ DocName(e) = DocName(d)
       /\ \A f \in 1..Len(processed_models) :
             DocName(f) = DocName(d) => f <= e

\* C11 as claimed: in debug mode, when the renderer is reached every document
\* has its "<name>.json", and the file read back has the keys model and
\* config with config equal to the merged configuration of that document
C11_DebugFileReadsBackOwnConfig ==
    (models_dir /\ AfterLoop)
    => \A d \in 1..Len(processed_models) :
          LET file == FileName(DocName(d), "json") IN
          /\ file \in DOMAIN json_files
          /\ DOMAIN JsonLoads(json_files[file]) = {"model", "config"}
          /\ JsonLoads(json_files[file]).config = processed_models[d][2].config

\* C11 amended: in debug mode every document has its "<name>.json" from the
\* moment it is appended; the file read back has exactly the keys model and
\* config and holds the last document exported under that name: its geometry
\* tree, and its merged configuration key by key, a sequence value read back
\* as a list of the same elements
C11_DebugFileHoldsLastExport ==
    models_dir
    => \A d \in 1..Len(processed_models) :
          LET file == FileName(DocName(d), "json")
              last == processed_models[LastExported(d)][2]
          IN /\ file \in DOMAIN json_files
             /\ LET back == JsonLoads(json_files[file]) IN
                /\ DOMAIN back = {"model", "config"}
                /\ back.model = last.model
                /\ DOMAIN back.config = DOMAIN last.config
                /\ \A key \in DOMAIN last.config :
                      IF key \in SequenceKeys
                      THEN /\ back.config[key].type = "list"
                           /\ back.config[key].items = last.config[key].items
                      ELSE back.config[key] = last.config[key]

C11_Witness ==
    /\ models_dir
    /\ pc = "render_start"
    /\ Len(processed_models) = 3
    /\ DocName(1) = DocName(2)
    /\ processed_models[1][2].config # processed_models[2][2].config
    /\ "position" \in DOMAIN processed_models[3][2].config

\* the documents that have the name of document d
SameName(d) == {e \in 1..Len(processed_models) : DocName(e) = DocName(d)}
\* how many times document e was started
Started(e) == Cardinality({i \in 1..Len(attempts) : attempts[i] = e})

\* C12: documents of the same name are all kept and each is attempted as a
\* document of its own; they write the same "<name>.png", which after the
\* loop holds the image of the last of them that was captured (a write that
\* raises leaves the file as it was), and does not exist when none was
C12_NameCollisionsOverwrite ==
    (viewer_init = "ok" /\ pc \in {"close", "render_returned", "exited"})
    => \A d \in 1..Len(processed_models) :
          LET captured == SameName(d) \ failed_docs
              file == FileName(DocName(d), "png")
          IN /\ \A e \in SameName(d) : Started(e) = 1
             /\ captured = {} => file \notin DOMAIN png_files
             /\ captured # {}
                  => /\ file \in DOMAIN png_files
                     /\ \E e \in captured :
                           /\ \A f \in captured : f <= e
                           /\ png_files[file] = ImageOf(e)

C12_Witness ==
    /\ pc = "exited"
    /\ Len(processed_models) = 2
    /\ DocName(1) = DocName(2)
    /\ processed_models[1][2] # processed_models[2][2]
    /\ failed_docs = {}
    /\ viewer_init = "ok"
    /\ DOMAIN png_files = {FileName(DocName(1), "png")}
    /\ png_files[FileName(DocName(1), "png")] = ImageOf(2)

\* the renderer stands between the launch of the browser and its return
InSession ==
    pc \in {"init_wait", "doc_resize", "doc_load", "doc_wait", "doc_settle",
            "doc_pause", "doc_capture", "doc_write", "close"}

\* C13: a renderer that launched a browser closes it exactly once, after the
\* last document was attempted or at once when the viewer does not
\* initialize; until then the browser stays open whatever number of
\* documents failed, and one page serves all documents
C13_BrowserClosedOnce ==
    /\ close_count <= 1
    /\ page_count = (IF browser = "none" THEN 0 ELSE 1)
    /\ InSession => browser = "open" /\ close_count = 0
    /\ viewer_init = "failed" => browser = "closed" /\ close_count = 1
    /\ (pc \in {"render_returned", "exited"} /\ browser # "none")
         => /\ browser = "closed"
            /\ close_count = 1
            /\ viewer_init = "ok"
                 => Len(doc_outcomes) = Len(processed_models)

C13_Witness ==
    /\ pc = "render_returned"
    /\ Len(processed_models) = 3
    /\ failed_docs = {1, 2}
    /\ success_count = 1
    /\ browser = "closed"
    /\ close_count = 1

\* the renderer stands in the protocol of document k
InDocument ==
    pc \in {"doc_resize", "doc_load", "doc_wait", "doc_settle", "doc_pause",
            "doc_capture", "doc_write"}

\* C14: the aggregated list is in script order and, within a script, in the
\* order its models were emitted; the renderer starts the documents in that
\* order, starts none before the one before it was captured or failed, and
\* the outcomes come in the order of the documents
C14_OneAtATimeInOrder ==
    /\ \A i, j \in 1..Len(doc_owner) : i < j => doc_owner[i] <= doc_owner[j]
    /\ pc \in {"export", "loop"}
         => LET n == Cardinality(OwnedBy(cur)) IN
            \A j \in 1..n : OwnDoc(n, j)[1] = models_to_process[j].items[2]
    /\ attempts = [i \in 1..Len(attempts) |-> i]
    /\ \A i \in 1..Len(doc_outcomes) : doc_outcomes[i].doc = i
    /\ Len(doc_outcomes) <= Len(attempts)
    /\ Len(attempts) <= Len(doc_outcomes) + 1
    /\ InDocument
         => /\ Len(doc_outcomes) = k - 1
            /\ Len(attempts) = (IF pc = "doc_resize" THEN k - 1 ELSE k)

C14_Witness ==
    /\ pc = "doc_load"
    /\ k = 2
    /\ doc_owner = <<1, 2, 2>>
    /\ attempts = <<1, 2>>
    /\ Len(doc_outcomes) = 1
    /\ doc_outcomes[1].outcome = "Failed"

\* the steps that lie behind a document whose protocol stands at p
StepsBefore(p) ==
    CASE p = "doc_resize" -> <<>>
      [] p = "doc_load" -> <<"resize">>
      [] p = "doc_wait" -> <<"resize", "clear", "load">>
      [] p = "doc_settle" -> <<"resize", "clear", "load", "wait">>
      [] p = "doc_pause" -> <<"resize", "clear", "load", "wait", "settle">>
      [] p = "doc_capture" ->
           <<"resize", "clear", "load", "wait", "settle">>
             \o (IF pause THEN <<"pause">> ELSE <<>>)
      [] p = "doc_write" ->
           <<"resize", "clear", "load", "wait", "settle">>
             \o (IF pause THEN <<"pause">> ELSE <<>>) \o <<"capture">>

\* the documents that ended as Captured
CapturedDocs ==
    {doc_outcomes[i].doc : i \in {j \in 1..Len(doc_outcomes) :
                                     doc_outcomes[j].outcome = "Captured"}}

\* C15: the steps of a document are taken in the order resize, clear, load,
\* wait, settle, pause (in pause mode only), capture, write; the image that
\* is written is the one captured from the loaded and ready document, no
\* file holds the image of a document that failed, and a document is
\* counted as succeeded only with its file written
C15_ProtocolStepOrder ==
    /\ InDocument => doc_steps = StepsBefore(pc)
    /\ pc = "doc_pause" => pause
    /\ pc = "doc_write" => loaded = k /\ data_url = DataUrl(ImageOf(k))
    /\ \A f \in DOMAIN png_files :
          \E e \in CapturedDocs :
             /\ e \notin failed_docs
             /\ f = FileName(DocName(e), "png")
             /\ png_files[f] = ImageOf(e)
    /\ success_count = Cardinality(CapturedDocs)
    /\ \A e \in CapturedDocs : FileName(DocName(e), "png") \in DOMAIN png_files
    /\ InDocument => k \notin CapturedDocs

C15_Witness ==
    /\ pc = "doc_write"
    /\ pause
    /\ k = 2
    /\ failed_docs = {1}
    /\ png_files = EmptyMap
    /\ success_count = 0

\* C16 as claimed: no browser exists before every script has been run and
\* exported, and in every run the renderer is called exactly once
C16_RendererInvokedOnce ==
    /\ browser # "none"
         => AfterLoop /\ Len(outcome) = Len(example_files)
    /\ pc = "exited" => render_calls = 1

\* C16 amended: no browser exists before every script has been run and
\* exported; the renderer is called at most once, after process_examples
\* has returned, with the whole list of documents of all scripts; it is
\* called once when there is a document and not at all when there is none
C16_RendererInvokedAtMostOnce ==
    /\ browser # "none"
         => /\ AfterLoop
            /\ Len(outcome) = Len(example_files)
            /\ Len(executed) = Len(example_files)
    /\ render_calls <= 1
    /\ render_calls = 1
         => /\ AfterLoop
            /\ processed_models # <<>>
            /\ Len(doc_owner) = Len(processed_models)
            /\ \A i \in 1..Len(outcome) : outcome[i] = "Ok" => OwnedBy(i) # {}
    /\ pc = "exited"
         => render_calls = (IF processed_models = <<>> THEN 0 ELSE 1)
    /\ (pc = "exited" /\ viewer_init = "ok")
         => Len(attempts) = Len(processed_models)

C16_Witness ==
    /\ pc = "exited"
    /\ render_calls = 1
    /\ doc_owner = <<1, 2, 2>>
    /\ Len(attempts) = 3
    /\ browser = "closed"

\* C17: a document is started at most once and ends in one outcome, Captured
\* or Failed; a document that failed is not started again; when the viewer
\* initialized, the Captured and the Failed outcomes together are as many as
\* the documents handed to the renderer
C17_OneTerminalOutcome ==
    /\ \A e \in 1..Len(processed_models) : Started(e) <= 1
    /\ \A i, j \in 1..Len(doc_outcomes) :
          doc_outcomes[i].doc = doc_outcomes[j].doc => i = j
    /\ \A i \in 1..Len(doc_outcomes) :
          /\ doc_outcomes[i].outcome \in {"Captured", "Failed"}
          /\ doc_outcomes[i].outcome = "Failed"
               <=> doc_outcomes[i].doc \in failed_docs
          /\ Started(doc_outcomes[i].doc) = 1
    /\ viewer_init # "ok" => doc_outcomes = <<>>
    /\ (viewer_init = "ok" /\ pc \in {"close", "render_returned", "exited"})
         => /\ Len(doc_outcomes) = Len(processed_models)
            /\ success_count + fail_count = Len(processed_models)
            /\ Cardinality(CapturedDocs) + Cardinality(failed_docs)
                 = Len(processed_models)

C17_Witness ==
    /\ pc = "close"
    /\ Len(doc_outcomes) = 3
    /\ doc_outcomes[1].outcome = "Failed"
    /\ doc_outcomes[2].outcome = "Captured"
    /\ doc_outcomes[3].outcome = "Failed"
    /\ attempts = <<1, 2, 3>>

\* C18: a write of "<name>.json" that raises costs that model only: the
\* other models of the script are still exported, and the failure is counted
\* so that the run exits non-zero
C18_PersistErrorSparesSiblings ==
    /\ (pc = "loop" /\ outcome # <<>> /\ outcome[cur] = "PersistError")
         => Cardinality(OwnedBy(cur)) = Len(models_to_process) - 1
    /\ (pc = "exited" /\ \E i \in 1..Len(outcome) : outcome[i] = "PersistError")
         => exit_code # 0

\* C19: once a script has been processed, however its processing ended and
\* whatever its top-level code did to sys.path, sys.path is what it was
\* before; the directory of the script is on it only while the script loads
C19_SearchPathRestored ==
    /\ pc # "load" => sys_path = InitialSysPath
    /\ (pc = "load" /\ path_ops = 0)
         => sys_path = path_insert(InitialSysPath, ExamplesDir)

\* the triples of all save_model calls of the running script, in call order
ScriptTriples == [i \in 1..Len(script_saves) |-> SavedTriple(script_saves[i])]

\* C20: between the clear before the load and the call of main() the
\* collector is not cleared: the captures of the script's top-level code are
\* in it, in call order and before those of main(), when main() drains it,
\* and a script that returns the drained list gets a document for each
C20_TopLevelSavesReachMain ==
    /\ pc \in {"load", "main"} => saved_models = ScriptTriples
    /\ pc = "load" => \A i \in 1..Len(script_saves) : script_saves[i].at = "load"
    /\ \A i, j \in 1..Len(script_saves) :
          (i < j /\ script_saves[j].at = "load") => script_saves[i].at = "load"
    /\ (pc = "returned" /\ shape = "list")
         => SelectSeq(result.items, C4_WellFormed) = ScriptTriples
    /\ (pc = "export" /\ shape = "list")
         => /\ models_to_process = ScriptTriples
            /\ LET n == Cardinality(OwnedBy(cur)) IN
               /\ n = mi - 1
               /\ \A j \in 1..n :
                     /\ OwnDoc(n, j)[1] = script_saves[j].name
                     /\ OwnDoc(n, j)[2].model = GeometryTree(script_saves[j].model)
    /\ (pc = "loop" /\ shape = "list" /\ outcome # <<>> /\ outcome[cur] = "Ok")
         => Cardinality(OwnedBy(cur)) = Len(models_to_process)

C20_Witness ==
    /\ pc = "export"
    /\ shape = "list"
    /\ mi = 2
    /\ Len(script_saves) = 2
    /\ script_saves[1].at = "load"
    /\ script_saves[2].at = "load"
    /\ Len(result.items) = 2
    /\ Len(processed_models) = 1
    /\ processed_models[1][1] = script_saves[1].name

====
